---- MODULE Spec2Model ----
(***************************************************************************)
(* shittydocker (src/main.go): pull an image from the registry, untar its  *)
(* layers into a fresh directory and run a command chrooted into it.       *)
(*                                                                         *)
(* The program is one sequential process.  Every step that talks to the    *)
(* outside world (an HTTP request, the tar child, the isolated child) is   *)
(* one action whose outcome is drawn from the outcomes that call can have. *)
(***************************************************************************)
EXTENDS Integers, Sequences, FiniteSets, TLC

\* ------------------------------------------------------------------ bounds
MaxArgs == 2
MaxLayers == 2
MaxManifests == 3

\* ------------------------------------------------------- program constants
StatusOK == 200
ExitFatal == 1
ExitCodeUnknown == -1
ExitWidth == 256

\* ---------------------------------------------------------- input domains
\* Positional arguments are distinct by position, so that a dropped, repeated
\* or shifted argument shows in the child's argv.
ArgPool == <<"/bin/echo", "a1", "a2", "a3", "a4">>
ArgLists == { SubSeq(ArgPool, 1, n) : n \in 0..MaxArgs }

OSes == {"linux", "darwin"}
Archs == {"amd64", "arm64"}
Platforms == [arch : Archs, os : OSes]
ManifestDigests == {"sha256:m1", "sha256:m2"}
\* Manifest: MediaType, Size and Annotations are decoded and never read.
Manifests == [digest : ManifestDigests, platform : Platforms]
ZeroPlatform == [arch |-> "", os |-> ""]
ZeroManifest == [digest |-> "", platform |-> ZeroPlatform]

SeqsUpTo(S, n) == UNION { [1..k -> S] : k \in 0..n }
ManifestLists == SeqsUpTo(Manifests, MaxManifests)

\* runtime.GOARCH, runtime.GOOS of the build.
HostPlatform == [arch |-> "amd64", os |-> "linux"]

\* Layer descriptors, in document order; digests are distinct by position.
LayerDigest(k) == <<"sha256:l1", "sha256:l2", "sha256:l3", "sha256:l4">>[k]
LayerList(n) == [k \in 1..n |-> [digest |-> LayerDigest(k)]]

HttpStatuses == {200, 401, 404}
Tokens == {"", "tok"}

\* A layer blob: the regular members it holds (path -> content, "-" when the
\* path is not in the archive) and what else is to say of it: nothing, a
\* member named through "..", a symlink member with an absolute target, a
\* member whose path runs through that symlink's name, or a damaged stream.
Paths == {"bin/sh", "etc/motd"}
Contents == {"v1", "v2"}
Absent == "-"
FileMaps == [Paths -> Contents \cup {Absent}]
Hazards == {"none", "dotdot", "abslink", "vialink", "damaged"}
Archives == [files : FileMaps, hazard : Hazards]
EmptyDir == [p \in Paths |-> Absent]

ExitStatuses == {0, 1, 2, 255}

\* ------------------------------------------------------------------ errors
\* A Go error value: what it is, the status code it prints (0 when none) and
\* the reference its text holds (the URL's last segment for a *url.Error, ""
\* when the text names no URL).
NoErr == [kind |-> "nil", code |-> 0, ref |-> ""]
Error(kind, code, ref) == [kind |-> kind, code |-> code, ref |-> ref]

VARIABLES
    pc,        \* position of main
    args,      \* flag.Args()
    jail,      \* the temp dir, "" before MkdirTemp
    token,     \* FetchImageTo: token
    manifest,  \* FetchImageTo: manifest
    layers,    \* FetchImageTo: layers
    i,         \* layer loop: number of the current layer, 0 before the loop
    data,      \* layer loop: the blob fetched for layer i
    err,       \* the error FetchImageTo returns
    dest,      \* the jail's regular files: path -> content
    links,     \* the jail holds a symlink whose target is absolute
    outside,   \* a file was written outside the jail
    logged,    \* digests written by log.Printf, in order
    child,     \* the isolated child: state, path, argv, root
    launch,    \* how cmd.Run ended, "" before it has
    fatal,     \* the message log.Fatal printed, "" when none
    exitCode,  \* the program's exit status, read when pc = "exited"
    log,       \* history: the pipeline's events
    applied,   \* history: the archives tar extracted with success
    fm         \* FindManifest alone: its inputs and its result

vars == <<pc, args, jail, token, manifest, layers, i, data, err, dest, links,
          outside, logged, child, launch, fatal, exitCode, log, applied, fm>>

NoChild == [state |-> "none", path |-> "", argv |-> <<>>, root |-> "", status |-> 0]
NoData == [files |-> EmptyDir, hazard |-> "none"]
NoFind == [done |-> FALSE, manifests |-> <<>>, platform |-> ZeroPlatform,
           m |-> ZeroManifest, ok |-> FALSE]

\* A pipeline event: what happened, and the number that goes with it: the
\* HTTP status of a registry reply (0 when there was none), 1 or 0 as the
\* manifest list holds an entry for the platform or not, the layer's number.
Event(ev, n) == [ev |-> ev, n |-> n]
Matches(ms, p) ==
    IF \E k \in 1..Len(ms) :
           ms[k].platform.os = p.os /\ ms[k].platform.arch = p.arch
    THEN 1 ELSE 0

\* ------------------------------------------------------------ pure helpers

\* FindManifest: the first manifest of the list whose Platform equals the
\* platform (Go struct equality), else the zero Manifest and false.
RECURSIVE FindFrom(_, _, _)
FindFrom(manifests, platform, k) ==
    IF k > Len(manifests) THEN [m |-> ZeroManifest, ok |-> FALSE]
    ELSE IF manifests[k].platform = platform
         THEN [m |-> manifests[k], ok |-> TRUE]
         ELSE FindFrom(manifests, platform, k + 1)

FindManifest_OSOnly(manifests, platform) ==
    IF \E k \in 1..Len(manifests) : manifests[k].platform.os = platform.os
    THEN LET k == CHOOSE j \in 1..Len(manifests) :
                      /\ manifests[j].platform.os = platform.os
                      /\ \A h \in 1..(j - 1) : manifests[h].platform.os # platform.os
         IN [m |-> manifests[k], ok |-> TRUE]
    ELSE [m |-> ZeroManifest, ok |-> FALSE]

FindManifest(manifests, platform) == FindFrom(manifests, platform, 1)

\* res.StatusCode != http.StatusOK
BadStatus_Never(code) == FALSE

BadStatus(code) == code # StatusOK

\* os.Exit(code): the status the parent of this program observes.
OsExit(code) == code % ExitWidth

\* exec.Cmd{Path: flag.Arg(0), Args: flag.Args()[1:]}: the argv the child is
\* started with.  os/exec uses {Path} when Args is empty.
CmdPath(a) == a[1]

CmdArgv(a) == IF Len(a) > 1 THEN Tail(a) ELSE <<a[1]>>

\* tar -x: a member replaces what the directory holds at its path, and the
\* paths the archive does not hold are left as they are.
Overlay_KeepOld(d, files) ==
    [p \in Paths |-> IF d[p] # Absent THEN d[p] ELSE files[p]]

Overlay(d, files) ==
    [p \in Paths |-> IF files[p] # Absent THEN files[p] ELSE d[p]]

\* The members tar has written when it stops in a damaged stream: those of
\* some part of the archive.
Partials(files) ==
    { f \in FileMaps : \A p \in Paths : f[p] \in {Absent, files[p]} }

\* cmd.Run's result: nil, an *exec.ExitError (the child ran and did not exit
\* with 0: it exited with a status, or a signal ended it), or any other error.
RunNil == [kind |-> "nil", exited |-> TRUE, status |-> 0]
RunExit(s) == [kind |-> "ExitError", exited |-> TRUE, status |-> s]
RunSignal == [kind |-> "ExitError", exited |-> FALSE, status |-> 0]
RunOther == [kind |-> "other", exited |-> FALSE, status |-> 0]

\* (*exec.ExitError).ExitCode: the exit status, -1 when a signal ended it.
ExitCode(r) == IF r.exited THEN r.status ELSE ExitCodeUnknown

\* main, after cmd.Run: the status the program ends with.
ProgramExit_Generic(r) == IF r.kind = "nil" THEN 0 ELSE OsExit(ExitFatal)

ProgramExit(r) ==
    IF r.kind = "nil" THEN 0
    ELSE IF r.kind = "ExitError" THEN OsExit(ExitCode(r))
    ELSE OsExit(ExitFatal)

\* `for _, layer := range layers`: the number of the layer after layer k.
RangeNext_Same(k) == IF k = 0 THEN 1 ELSE k

RangeNext(k) == k + 1

\* log.Printf("downloading layer %s/%s: %s", library, image, layer.Digest):
\* the layer the line names.
LayerLogLine_Image(l) == "library/image"

LayerLogLine(l) == l.digest

\* The err != nil tests of the layer loop and of FetchImageTo's caller.
Failed(e) == e # NoErr

FetchFailed_Never(e) == FALSE

FetchFailed(e) == e # NoErr

\* What one run of `tar -xzf - -C dir` can leave: the directory, whether it
\* now holds an absolute symlink, whether a file was written outside it, and
\* tar's verdict.  tar checks no more than its own defaults: a member named
\* through ".." is refused (the others are extracted, tar exits non-zero), a
\* symlink is created with the target it carries, and a member whose path
\* runs through such a symlink is written where the link points.  tar can
\* fail on any stream (damaged blob, full disk) after part of the members.
TarRun(d, lnk, out, a) ==
    { [dest |-> Overlay(d, part), links |-> lnk, outside |-> out, ok |-> FALSE] :
        part \in Partials(a.files) }
    \cup
    IF a.hazard = "damaged" THEN {}
    ELSE { [dest |-> Overlay(d, a.files),
            links |-> (lnk \/ a.hazard = "abslink"),
            outside |-> (out \/ (a.hazard = "vialink" /\ lnk)),
            ok |-> a.hazard # "dotdot"] }

\* ------------------------------------------------------------------- steps
Init ==
    /\ pc = "start"
    /\ args \in ArgLists
    /\ jail = ""
    /\ token = ""
    /\ manifest = ZeroManifest
    /\ layers = <<>>
    /\ i = 0
    /\ data = NoData
    /\ err = NoErr
    /\ dest = EmptyDir
    /\ links = FALSE
    /\ outside = FALSE
    /\ logged = <<>>
    /\ child = NoChild
    /\ launch = ""
    /\ fatal = ""
    /\ exitCode = 0
    /\ log = <<>>
    /\ applied = <<>>
    /\ fm = NoFind

\* log.Fatal: print, then os.Exit(1).
Fatal(msg) ==
    /\ fatal' = msg
    /\ pc' = "exited"
    /\ exitCode' = OsExit(ExitFatal)

\* FetchImageTo returns e to main.
Return(e) ==
    /\ err' = e
    /\ pc' = "returned"

\* main: the positional command is required.
CheckArgs ==
    /\ pc = "start"
    /\ IF Len(args) < 1
       THEN Fatal("command is required")
       ELSE pc' = "mkdir" /\ UNCHANGED <<fatal, exitCode>>
    /\ UNCHANGED <<args, jail, token, manifest, layers, i, data, err, dest,
                   links, outside, logged, child, launch, log, applied, fm>>

\* main: os.MkdirTemp.
MkdirTemp ==
    /\ pc = "mkdir"
    /\ \/ /\ jail' = "jail-1"
          /\ pc' = "token"
          /\ UNCHANGED <<fatal, exitCode>>
       \/ /\ Fatal("failed to create jail")
          /\ UNCHANGED jail
    /\ UNCHANGED <<args, token, manifest, layers, i, data, err, dest, links,
                   outside, logged, child, launch, log, applied, fm>>

\* FetchImageTo: FetchRegistryToken.  The status of the reply is not read: a
\* reply that decodes gives its token field, "" when it has none.
FetchRegistryToken ==
    /\ pc = "token"
    /\ log' = Append(log, Event("token", 0))
    /\ \/ Return(Error("transport", 0, "token")) /\ UNCHANGED token
       \/ Return(Error("decode", 0, "")) /\ UNCHANGED token
       \/ \E t \in Tokens : token' = t /\ pc' = "manifests" /\ UNCHANGED err
    /\ UNCHANGED <<args, jail, manifest, layers, i, data, dest, links, outside,
                   logged, child, launch, fatal, exitCode, applied, fm>>

\* FetchImageTo: ListManifests, then FindManifest for the host's platform.
ResolveManifest ==
    /\ pc = "manifests"
    /\ \/ /\ log' = Append(log, Event("manifests", 0))
          /\ Return(Error("transport", 0, "latest"))
          /\ UNCHANGED manifest
       \/ \E code \in HttpStatuses :
            IF BadStatus(code)
            THEN /\ log' = Append(log, Event("manifests", code))
                 /\ Return(Error("status", code, ""))
                 /\ UNCHANGED manifest
            ELSE \/ /\ log' = Append(log, Event("manifests", code))
                    /\ Return(Error("decode", 0, ""))
                    /\ UNCHANGED manifest
                 \/ \E ms \in ManifestLists :
                      LET r == FindManifest(ms, HostPlatform)
                      IN /\ log' = log \o <<Event("manifests", code),
                                            Event("find", Matches(ms, HostPlatform))>>
                         /\ IF ~r.ok
                            THEN Return(Error("notfound", 0, "")) /\ UNCHANGED manifest
                            ELSE manifest' = r.m /\ pc' = "layers" /\ UNCHANGED err
    /\ UNCHANGED <<args, jail, token, layers, i, data, dest, links, outside,
                   logged, child, launch, fatal, exitCode, applied, fm>>

\* FetchImageTo: ListLayers for the manifest found.
ListLayers ==
    /\ pc = "layers"
    /\ \/ /\ log' = Append(log, Event("layers", 0))
          /\ Return(Error("transport", 0, manifest.digest))
          /\ UNCHANGED layers
       \/ \E code \in HttpStatuses :
            /\ log' = Append(log, Event("layers", code))
            /\ IF BadStatus(code)
               THEN Return(Error("status", code, "")) /\ UNCHANGED layers
               ELSE \/ Return(Error("decode", 0, "")) /\ UNCHANGED layers
                    \/ \E n \in 0..MaxLayers :
                         layers' = LayerList(n) /\ pc' = "loop" /\ UNCHANGED err
    /\ UNCHANGED <<args, jail, token, manifest, i, data, dest, links, outside,
                   logged, child, launch, fatal, exitCode, applied, fm>>

\* FetchImageTo: the head of `for _, layer := range layers`, and the
\* log.Printf that opens the body; return nil after the last layer.
NextLayer ==
    /\ pc = "loop"
    /\ IF i < Len(layers)
       THEN /\ i' = RangeNext(i)
            /\ logged' = Append(logged, LayerLogLine(layers[RangeNext(i)]))
            /\ pc' = "fetch"
            /\ UNCHANGED err
       ELSE /\ Return(NoErr)
            /\ UNCHANGED <<i, logged>>
    /\ UNCHANGED <<args, jail, token, manifest, layers, data, dest, links,
                   outside, child, launch, fatal, exitCode, log, applied, fm>>

\* What FetchLayer can return for a layer: the blob and a nil error, or an
\* error.  Only the *url.Error of a failed request names the URL, and with it
\* the digest; a non-200 status and a failed read of the body do not.
FetchLayerResults(l) ==
    { [data |-> a, err |-> NoErr] : a \in Archives }
    \cup { [data |-> NoData, err |-> Error("transport", 0, l.digest)],
           [data |-> NoData, err |-> Error("read", 0, "")] }
    \cup { [data |-> NoData, err |-> Error("status", code, "")] :
             code \in { c \in HttpStatuses : BadStatus(c) } }

\* Layer loop: FetchLayer.
FetchLayer ==
    /\ pc = "fetch"
    /\ log' = Append(log, Event("fetch", i))
    /\ \E r \in FetchLayerResults(layers[i]) :
         IF Failed(r.err)
         THEN Return(r.err) /\ UNCHANGED data
         ELSE data' = r.data /\ pc' = "untar" /\ UNCHANGED err
    /\ UNCHANGED <<args, jail, token, manifest, layers, i, dest, links, outside,
                   logged, child, launch, fatal, exitCode, applied, fm>>

\* Layer loop: pipe the blob into tar, in the jail.
Untar ==
    /\ pc = "untar"
    /\ log' = Append(log, Event("extract", i))
    /\ \E r \in TarRun(dest, links, outside, data) :
         LET e == IF r.ok THEN NoErr ELSE Error("untar", 0, "")
         IN /\ dest' = r.dest
            /\ links' = r.links
            /\ outside' = r.outside
            /\ IF Failed(e)
               THEN Return(e) /\ UNCHANGED applied
               ELSE /\ applied' = Append(applied, [n |-> i, files |-> data.files])
                    /\ pc' = "loop"
                    /\ UNCHANGED err
    /\ UNCHANGED <<args, jail, token, manifest, layers, i, data, logged, child,
                   launch, fatal, exitCode, fm>>

\* main: log.Fatalf when FetchImageTo failed.
AfterFetch ==
    /\ pc = "returned"
    /\ IF FetchFailed(err)
       THEN Fatal("failed to fetch image")
       ELSE pc' = "launch" /\ UNCHANGED <<fatal, exitCode>>
    /\ UNCHANGED <<args, jail, token, manifest, layers, i, data, err, dest,
                   links, outside, logged, child, launch, log, applied, fm>>

\* main: cmd.Run, first half: fork, unshare, chroot, exec.  When it fails
\* the error is no *exec.ExitError.
RunStart ==
    /\ pc = "launch"
    /\ \/ /\ child' = [state |-> "running", path |-> CmdPath(args),
                       argv |-> CmdArgv(args), root |-> jail, status |-> 0]
          /\ pc' = "wait"
          /\ UNCHANGED <<launch, exitCode>>
       \/ /\ launch' = "nostart"
          /\ pc' = "exited"
          /\ exitCode' = ProgramExit(RunOther)
          /\ UNCHANGED child
    /\ UNCHANGED <<args, jail, token, manifest, layers, i, data, err, dest,
                   links, outside, logged, fatal, log, applied, fm>>

\* main: cmd.Run, second half: wait for the child, then leave.
RunWait ==
    /\ pc = "wait"
    /\ \/ \E s \in ExitStatuses :
            /\ child' = [child EXCEPT !.state = "exited", !.status = s]
            /\ launch' = "exited"
            /\ exitCode' = ProgramExit(IF s = 0 THEN RunNil ELSE RunExit(s))
       \/ /\ child' = [child EXCEPT !.state = "signaled"]
          /\ launch' = "signaled"
          /\ exitCode' = ProgramExit(RunSignal)
       \/ /\ child' = [child EXCEPT !.state = "lost"]
          /\ launch' = "internal"
          /\ exitCode' = ProgramExit(RunOther)
    /\ pc' = "exited"
    /\ UNCHANGED <<args, jail, token, manifest, layers, i, data, err, dest,
                   links, outside, logged, fatal, log, applied, fm>>

Next ==
    \/ CheckArgs
    \/ MkdirTemp
    \/ FetchRegistryToken
    \/ ResolveManifest
    \/ ListLayers
    \/ NextLayer
    \/ FetchLayer
    \/ Untar
    \/ AfterFetch
    \/ RunStart
    \/ RunWait

Spec == Init /\ [][Next]_vars

\* ------------------------------------------------- FindManifest on its own
InitFind ==
    /\ pc = "unit"
    /\ args = <<>>
    /\ jail = ""
    /\ token = ""
    /\ manifest = ZeroManifest
    /\ layers = <<>>
    /\ i = 0
    /\ data = NoData
    /\ err = NoErr
    /\ dest = EmptyDir
    /\ links = FALSE
    /\ outside = FALSE
    /\ logged = <<>>
    /\ child = NoChild
    /\ launch = ""
    /\ fatal = ""
    /\ exitCode = 0
    /\ log = <<>>
    /\ applied = <<>>
    /\ \E ms \in ManifestLists, p \in Platforms :
         fm = [NoFind EXCEPT !.manifests = ms, !.platform = p]

CallFindManifest ==
    /\ pc = "unit"
    /\ ~fm.done
    /\ LET r == FindManifest(fm.manifests, fm.platform)
       IN fm' = [fm EXCEPT !.done = TRUE, !.m = r.m, !.ok = r.ok]
    /\ UNCHANGED <<pc, args, jail, token, manifest, layers, i, data, err, dest,
                   links, outside, logged, child, launch, fatal, exitCode, log,
                   applied>>

NextFind == CallFindManifest

SpecFind == InitFind /\ [][NextFind]_vars

\* ================================================================== claims
HasEvent(ev) == \E k \in 1..Len(log) : log[k].ev = ev
CountEvents(ev) == Cardinality({ k \in 1..Len(log) : log[k].ev = ev })
Max(S) == CHOOSE x \in S : \A y \in S : y <= x
Min(S) == CHOOSE x \in S : \A y \in S : x <= y

\* FetchImageTo has returned nil to main.
ReturnedNil ==
    /\ pc \in {"returned", "launch", "wait", "exited"}
    /\ err = NoErr
    /\ fatal = ""

\* The fetch or the extraction of layer i failed.
LayerFailed == err # NoErr /\ i > 0

\* The layers of the manifest, all of them, fetched and extracted one after
\* the other in list order.
AllLayersInOrder ==
    /\ Len(applied) = Len(layers)
    /\ Len(log) = 4 + 2 * Len(layers)
    /\ \A k \in 1..Len(layers) :
         /\ applied[k].n = k
         /\ log[3 + 2 * k] = Event("fetch", k)
         /\ log[4 + 2 * k] = Event("extract", k)

\* C1: the isolated child is started only after FetchImageTo has returned nil,
\* and FetchImageTo returns nil only with every layer of the manifest fetched
\* and extracted into the jail in ascending list order; the child's root is
\* that jail, never one with a part of the layers or layers out of order.
C1_LaunchAfterFullExtraction ==
    /\ ReturnedNil => AllLayersInOrder
    /\ child.state # "none" => ReturnedNil /\ AllLayersInOrder /\ child.root = jail

C1_Witness ==
    /\ child.state = "running"
    /\ Len(layers) = 2
    /\ Len(applied) = 2

\* C2: the program's exit code is the child's exit status when the child was
\* started and exited with a non-zero status (whatever the status), 0 when
\* the child exited with 0, and 1 when the run failed before the launch (no
\* positional command, no temp dir, or an error of FetchImageTo).
C2_ExitCode ==
    pc = "exited" =>
        /\ launch = "exited" => exitCode = child.status
        /\ Len(args) < 1 \/ jail = "" \/ err # NoErr =>
               exitCode = 1 /\ fatal # "" /\ child.state = "none"

C2_Witness ==
    /\ pc = "exited"
    /\ launch = "exited"
    /\ child.status = 2
    /\ exitCode = 2

\* C3: a launch that ends otherwise than by the child exiting (the child
\* could not be started, a signal ended it, the launcher failed) gives one
\* fixed non-zero exit status, the same for all of them: the 1 that a child
\* that could not be started gives.
C3_FixedFallbackStatus ==
    pc = "exited" /\ launch \in {"nostart", "signaled", "internal"} =>
        exitCode = ExitFatal

\* C4: FindManifest returns the first entry, in list order, whose operating
\* system and architecture are both the platform's, and reports not found
\* exactly when the list has no such entry; an entry that matches in one of
\* the two fields only is never returned.
C4_FindManifest ==
    fm.done =>
        LET ms == fm.manifests
            hits == { k \in 1..Len(ms) :
                        /\ ms[k].platform.os = fm.platform.os
                        /\ ms[k].platform.arch = fm.platform.arch }
        IN /\ fm.ok <=> hits # {}
           /\ hits # {} => fm.m = ms[Min(hits)]
           /\ hits = {} => fm.m = ZeroManifest
           /\ Cardinality(hits) = 1 => \A k \in hits : fm.m = ms[k]
           /\ fm.ok => /\ fm.m.platform.os = fm.platform.os
                       /\ fm.m.platform.arch = fm.platform.arch

C4_Witness ==
    /\ fm.done
    /\ fm.ok
    /\ Len(fm.manifests) = 3
    /\ fm.manifests[1].platform.os = fm.platform.os
    /\ fm.manifests[1].platform.arch # fm.platform.arch
    /\ fm.manifests[2].platform = fm.platform
    /\ fm.manifests[3].platform = fm.platform
    /\ fm.manifests[2].digest # fm.manifests[3].digest
    /\ fm.m = fm.manifests[2]

\* The manifest-list request got a status other than 200, or the list it got
\* has no entry for the host's platform.
ResolutionFailed ==
    \E k \in 1..Len(log) :
        \/ log[k].ev = "manifests" /\ log[k].n \notin {0, StatusOK}
        \/ log[k].ev = "find" /\ log[k].n = 0

\* C5: when manifest resolution fails (a non-200 reply to the manifest-list
\* request, or no entry for the host's platform), the run ends with exit code
\* 1 and has made no layer-list request, no blob request, no second token
\* request, no extraction, and has started no child.
C5_ResolutionFailureStops ==
    ResolutionFailed =>
        /\ ~HasEvent("layers")
        /\ ~HasEvent("fetch")
        /\ ~HasEvent("extract")
        /\ CountEvents("token") = 1
        /\ applied = <<>> /\ dest = EmptyDir /\ logged = <<>>
        /\ child.state = "none"
        /\ pc \in {"returned", "exited"}
        /\ pc = "exited" => exitCode = 1

C5_Witness ==
    /\ pc = "exited"
    /\ exitCode = 1
    /\ \E k \in 1..Len(log) : log[k].ev = "find" /\ log[k].n = 0

\* C6: the child is started with the first positional argument as its
\* executable and with the remaining positional arguments, in order and
\* unchanged, as its arguments (what follows argv[0]): none is dropped,
\* repeated, or moved into argv[0].
C6_ArgumentsVerbatim ==
    child.state # "none" =>
        /\ child.path = args[1]
        /\ Len(child.argv) >= 1
        /\ SubSeq(child.argv, 2, Len(child.argv)) = Tail(args)

\* C7: a layer archive with a member that resolves outside the destination
\* (through ".." or through a symlink with an absolute target) is rejected,
\* and no file is created outside the destination.
C7_PathSafety == ~outside

\* The k-th event of a run whose requests all succeed.
ExpectedEvent(k) ==
    IF k = 1 THEN "token"
    ELSE IF k = 2 THEN "manifests"
    ELSE IF k = 3 THEN "find"
    ELSE IF k = 4 THEN "layers"
    ELSE IF k % 2 = 1 THEN "fetch" ELSE "extract"

\* C8: the events of the pipeline come in one order: the token request, the
\* manifest-list request, the platform resolution, the layer-list request,
\* then fetch(1), extract(1), fetch(2), extract(2), ...: fetch(i+1) comes
\* after extract(i), and no layer is fetched or extracted twice.
C8_StrictOrder ==
    \A k \in 1..Len(log) :
        /\ log[k].ev = ExpectedEvent(k)
        /\ k >= 5 => log[k].n = (k - 3) \div 2 /\ log[k].n <= Len(layers)

C8_Witness ==
    /\ Len(log) = 8
    /\ log[7] = Event("fetch", 2)
    /\ log[8] = Event("extract", 2)

TopContent(p) ==
    LET S == { k \in 1..Len(applied) : applied[k].files[p] # Absent }
    IN IF S = {} THEN Absent ELSE applied[Max(S)].files[p]

C10_LastLayerWins ==
    ReturnedNil => \A p \in Paths : dest[p] = TopContent(p)

C10_Witness ==
    /\ ReturnedNil
    /\ Len(applied) = 2
    /\ \E p \in Paths : \E q \in Paths :
         /\ applied[1].files[p] = "v1"
         /\ applied[2].files[p] = "v2"
         /\ dest[p] = "v2"
         /\ applied[1].files[q] # Absent
         /\ applied[2].files[q] = Absent
         /\ dest[q] = applied[1].files[q]
====
